---- MODULE Spec2Model ----
(***************************************************************************)
(* Model of app/streamlit_app.py: the column type inference engine         *)
(* infer_and_cast and the Streamlit script that calls it.                  *)
(*                                                                         *)
(* A cell is a record [k, s, n]:                                           *)
(*   k = "na"    a missing marker; s is the text Python prints for it      *)
(*               ("nan" for float NaN, "None", "<NA>" for pd.NA, "NaT")    *)
(*   k = "str"   a Python str, s is the text                               *)
(*   k = "int"   an integer, n is the value in tenths (1 is n = 10);       *)
(*               s = "ns" marks the int64 view of a timestamp, n its day,  *)
(*               s = "iNaT" the int64 view of NaT (the minimum int64)      *)
(*   k = "float" a float, n is the value in tenths (2.5 is n = 25)         *)
(*   k = "ts"    a Timestamp, n is its day number since 1970-01-01         *)
(* A Series is [name, dtype, cells]; a DataFrame is a sequence of Series   *)
(* with distinct names.                                                    *)
(***************************************************************************)
EXTENDS Integers, Sequences, FiniteSets, TLC

\* ---------------------------------------------------------------- bounds
MaxRows == 3
MaxCols == 2
MaxCells == 4

\* ------------------------------------------------------------ cell values
NaN == [k |-> "na", s |-> "nan", n |-> 0]
NaT == [k |-> "na", s |-> "NaT", n |-> 0]
PdNA == [k |-> "na", s |-> "<NA>", n |-> 0]
StrV(t) == [k |-> "str", s |-> t, n |-> 0]
IntV(v) == [k |-> "int", s |-> "", n |-> v]
FloatV(v) == [k |-> "float", s |-> "", n |-> v]
TsV(d) == [k |-> "ts", s |-> "", n |-> d]
INaT == [k |-> "int", s |-> "iNaT", n |-> 0]

\* Series.isna / Series.notna, per cell
isna(c) == c.k = "na"
notna(c) == ~isna(c)

\* The texts of the model, with what pandas' parsers make of each.
Texts == {"1", "1.0", "2.5", "2020", "2021-01-01", "bad", "nan", "None", " x "}

\* pd.to_numeric(errors="coerce") on one str: the parsed number, or NaN.
NumParse(t) ==
    CASE t = "1" -> IntV(10)
      [] t = "2.5" -> FloatV(25)
      [] t = "1.0" -> FloatV(10)
      [] t = "2020" -> IntV(20200)
      [] t = "2020.0" -> FloatV(20200)
      [] OTHER -> NaN

\* pd.to_datetime(errors="coerce") on one str: the Timestamp, or NaT.
\* "2020" parses as the year 2020; a bare small number resolves to year 1,
\* which is out of the nanosecond range and is coerced to NaT.
DtParse(t) ==
    CASE t = "2020" -> TsV(18262)
      [] t = "2021-01-01" -> TsV(18628)
      [] OTHER -> NaT

\* str.strip() on one text
Strip(t) ==
    CASE t = " x " -> "x"
      [] OTHER -> t

\* str(v) of a number held in an object column
NumText(c) ==
    CASE c.k = "int" /\ c.n = 10 -> "1"
      [] c.k = "int" /\ c.n = 20200 -> "2020"
      [] c.k = "float" /\ c.n = 10 -> "1.0"
      [] c.k = "float" /\ c.n = 25 -> "2.5"
      [] c.k = "float" /\ c.n = 20200 -> "2020.0"
      [] OTHER -> "?"

\* ------------------------------------------------------- sequence helpers
RECURSIVE SelectCells(_, _)
SelectCells(cells, keep) ==
    IF cells = <<>> THEN <<>>
    ELSE IF keep[1] THEN <<cells[1]>> \o SelectCells(Tail(cells), Tail(keep))
    ELSE SelectCells(Tail(cells), Tail(keep))

Count(cells) == Cardinality({i \in 1..Len(cells) : notna(cells[i])})

\* Series.dropna(): the non-missing cells in order, same dtype
dropna(series) ==
    [series EXCEPT !.cells =
        SelectCells(series.cells, [i \in 1..Len(series.cells) |-> notna(series.cells[i])])]

\* ------------------------------------------------------ pandas conversions
\* pd.to_numeric(errors="coerce") on one cell of an object column
ObjToNum(c) ==
    CASE c.k = "str" -> NumParse(c.s)
      [] c.k = "int" -> c
      [] c.k = "float" -> c
      [] OTHER -> NaN

\* an integer stored in a float64 column
AsFloat(c) == IF c.k = "int" THEN FloatV(c.n) ELSE c

\* pd.to_numeric(series, errors="coerce"): a numeric dtype passes through,
\* datetime64 is viewed as int64 (NaT becomes the minimum int64, which is
\* not missing), an object column is parsed cell by cell and is int64 only
\* when every cell came out an integer, float64 otherwise.
to_numeric(series) ==
    IF series.dtype \in {"int64", "float64", "Int64"} THEN series
    ELSE IF series.dtype = "datetime64" THEN
        [series EXCEPT !.dtype = "int64",
                       !.cells = [i \in 1..Len(series.cells) |->
                           IF isna(series.cells[i]) THEN INaT
                           ELSE [k |-> "int", s |-> "ns", n |-> series.cells[i].n]]]
    ELSE
        LET conv == [i \in 1..Len(series.cells) |-> ObjToNum(series.cells[i])]
        IN  IF \A i \in 1..Len(conv) : conv[i].k = "int"
            THEN [series EXCEPT !.dtype = "int64", !.cells = conv]
            ELSE [series EXCEPT !.dtype = "float64",
                                !.cells = [i \in 1..Len(conv) |-> AsFloat(conv[i])]]

\* pd.to_datetime(errors="coerce") on one cell: a str is parsed, a number is
\* nanoseconds since the epoch (day 0 for the numbers of the model).
ObjToDt(c) ==
    CASE c.k = "str" -> DtParse(c.s)
      [] c.k = "ts" -> c
      [] c.k = "int" -> TsV(0)
      [] c.k = "float" -> TsV(0)
      [] OTHER -> NaT

\* pd.to_datetime(series, errors="coerce", infer_datetime_format=True)
to_datetime(series) ==
    [series EXCEPT !.dtype = "datetime64",
                   !.cells = [i \in 1..Len(series.cells) |-> ObjToDt(series.cells[i])]]

\* pd.api.types.is_integer_dtype
is_integer_dtype(dtype) == dtype \in {"int64", "Int64"}

\* Series.astype("Int64"): the nullable integer dtype, missing is pd.NA
astype_Int64(series) ==
    [series EXCEPT !.dtype = "Int64",
                   !.cells = [i \in 1..Len(series.cells) |->
                       IF isna(series.cells[i]) THEN PdNA
                       ELSE [series.cells[i] EXCEPT !.k = "int"]]]

\* Series.astype(str) on one cell: a missing marker becomes its printed text
astype_str(c) ==
    CASE c.k = "str" -> c
      [] c.k = "na" -> StrV(c.s)
      [] OTHER -> StrV(NumText(c))

\* lines 71-73: astype(str).replace({"nan": pd.NA}), then
\* where(~isin(["nan", "None"]), other=pd.NA), then str.strip()
StringClean(c) ==
    LET t == astype_str(c)
        r == IF t.s = "nan" THEN PdNA ELSE t
        w == IF notna(r) /\ r.s \in {"nan", "None"} THEN PdNA ELSE r
    IN  IF isna(w) THEN w ELSE StrV(Strip(w.s))

\* ratio >= threshold, with ratio = cnt / n (n > 0) and threshold = th[1] / th[2]
RatioGe(cnt, n, th) == cnt * th[2] >= th[1] * n

\* ------------------------------------------------------- infer_and_cast
\* The numeric trial (lines 49-50) and the datetime trial (lines 53-54)
coerced_num(series) == to_numeric(dropna(series))
coerced_dt(series) == to_datetime(dropna(series))
NonNullCount(series) == Len(dropna(series).cells)
num_cnt(series) == Count(coerced_num(series).cells)
dt_cnt(series) == Count(coerced_dt(series).cells)

\* line 57 with >= for the comparison of the two ratios
DatetimeWins_TieToDatetime(series, dth) ==
    /\ RatioGe(dt_cnt(series), NonNullCount(series), dth)
    /\ dt_cnt(series) >= num_cnt(series)

\* line 57
DatetimeWins(series, dth) ==
    /\ RatioGe(dt_cnt(series), NonNullCount(series), dth)
    /\ dt_cnt(series) > num_cnt(series)

\* line 60 with > for >=
NumericClears_Strict(series, nth) ==
    num_cnt(series) * nth[2] > nth[1] * NonNullCount(series)

\* line 60
NumericClears(series, nth) == RatioGe(num_cnt(series), NonNullCount(series), nth)

\* line 63
AllInts(series) == is_integer_dtype(dropna(coerced_num(series)).dtype)

\* line 44 testing the length of the column, not of its non-missing part
IsEmptyColumn_AllRows(series) == Len(series.cells) = 0

\* line 44
IsEmptyColumn(series) == NonNullCount(series) = 0

\* The body of the loop over df.columns (lines 41-74) for one column:
\* the column written back to df and the tag recorded for it.
InferColumn(series, dth, nth) ==
    IF IsEmptyColumn(series) THEN [col |-> series, tag |-> "empty"]
    ELSE IF DatetimeWins(series, dth)
        THEN [col |-> to_datetime(series), tag |-> "datetime"]
    ELSE IF NumericClears(series, nth) THEN
        IF AllInts(series)
        THEN [col |-> astype_Int64(to_numeric(series)), tag |-> "integer"]
        ELSE [col |-> to_numeric(series), tag |-> "float"]
    ELSE IF series.dtype = "object"
        THEN [col |-> [series EXCEPT !.cells =
                  [i \in 1..Len(series.cells) |-> StringClean(series.cells[i])]],
              tag |-> "string"]
    ELSE [col |-> series, tag |-> "string"]

ColumnNames(df) == {df[i].name : i \in 1..Len(df)}
ColumnOf(df, name) == CHOOSE i \in 1..Len(df) : df[i].name = name

\* infer_and_cast leaving the empty columns out of the dict
infer_and_cast_NoEmptyTag(df, dth, nth) ==
    [status |-> "ok",
     df |-> [i \in 1..Len(df) |-> InferColumn(df[i], dth, nth).col],
     inferred |-> [name \in {n \in ColumnNames(df) :
                                ~IsEmptyColumn(df[ColumnOf(df, n)])} |->
                      InferColumn(df[ColumnOf(df, name)], dth, nth).tag]]

\* infer_and_cast(df, datetime_threshold, numeric_threshold), lines 31-75:
\* the cast copy of df and the dict of inferred tags; status is "ok" since
\* the function has no path that raises or rejects its arguments.
infer_and_cast(df, dth, nth) ==
    [status |-> "ok",
     df |-> [i \in 1..Len(df) |-> InferColumn(df[i], dth, nth).col],
     inferred |-> [name \in ColumnNames(df) |->
                      InferColumn(df[ColumnOf(df, name)], dth, nth).tag]]

\* ------------------------------------------------------------ the inputs
\* Column labels, in the order the loader assigns them
ColNames == <<"b", "a", "c", "d">>

\* The thresholds tried, as <<numerator, denominator>>: the defaults of line
\* 31 (0.6 and 0.8), values that a ratio over a few rows can hit exactly,
\* and for the calls with any threshold a value <= 0 and a value > 1.
DefaultDatetimeThreshold == <<3, 5>>
DefaultNumericThreshold == <<4, 5>>
DatetimeThresholds == {DefaultDatetimeThreshold, <<1, 1>>}
NumericThresholds == {DefaultNumericThreshold, <<1, 2>>}
InRange(th) == th[1] > 0 /\ th[1] <= th[2]
AnyDatetimeThresholds == DatetimeThresholds \cup {<<0, 1>>}
AnyNumericThresholds == NumericThresholds \cup {<<6, 5>>}

\* The columns a loaded file can hold: object columns of text with NaN for
\* the blanks, and the int64, float64 and datetime64 columns the loader
\* builds itself (NaN or NaT for the blanks).
ColumnBodies(nr) ==
    {[dtype |-> "object", cells |-> cs] :
        cs \in [1..nr -> {StrV(t) : t \in Texts} \cup {NaN}]}
    \cup {[dtype |-> "int64", cells |-> cs] : cs \in [1..nr -> {IntV(10)}]}
    \cup {[dtype |-> "float64", cells |-> cs] : cs \in [1..nr -> {FloatV(25), NaN}]}
    \cup {[dtype |-> "datetime64", cells |-> cs] : cs \in [1..nr -> {TsV(18628), NaT}]}

Shapes ==
    {sh \in (0..MaxCols) \X (0..MaxRows) : sh[1] * sh[2] <= MaxCells}

TablesOfShape(nc, nr) ==
    {[i \in 1..nc |-> [name |-> ColNames[i], dtype |-> body[i].dtype,
                       cells |-> body[i].cells]] :
        body \in [1..nc -> ColumnBodies(nr)]}

Tables == UNION {TablesOfShape(sh[1], sh[2]) : sh \in Shapes}

NoResult == [status |-> "none", df |-> <<>>, inferred |-> <<>>]

\* --------------------------------------------------------- the UI script
\* bounds of the uploaded files
UiCols == 2
UiRows == 2

NoFile == <<>>
NoDownload == [format |-> "none", table |-> <<>>]
ExportTypes == {"parquet", "csv", "xlsx"}

\* The files a user uploads, as pd.read_csv / pd.read_excel return them
\* (lines 82-85): object columns whose rows hold a different value in every
\* column, so that a row promoted to header gives unique column labels.
UiCells == {StrV("1"), StrV(" x "), NaN}
Files ==
    {t \in TablesOfShape(UiCols, UiRows) :
        /\ \A i \in 1..UiCols : t[i].dtype = "object"
        /\ \A i \in 1..UiCols : \A r \in 1..UiRows : t[i].cells[r] \in UiCells
        /\ \A i, j \in 1..UiCols : \A r \in 1..UiRows :
              i # j => t[i].cells[r] # t[j].cells[r]}

RowCount(d) == IF d = <<>> THEN 0 ELSE Len(d[1].cells)
Labels(d) == [i \in 1..Len(d) |-> d[i].name]

\* line 92: df.iloc[top_rows:].reset_index(drop=True)
RemoveTopRows(d, k) ==
    [i \in 1..Len(d) |->
        [d[i] EXCEPT !.cells = SubSeq(d[i].cells, k + 1, Len(d[i].cells))]]

\* lines 96-98: the first row, as text, becomes the column labels
PromoteHeader(d) ==
    [i \in 1..Len(d) |->
        [d[i] EXCEPT !.name = astype_str(d[i].cells[1]).s,
                     !.cells = Tail(d[i].cells)]]

\* lines 92-98
BasicCleanup(file, k, hdr) ==
    LET d == RemoveTopRows(file, k)
    IN  IF hdr /\ RowCount(d) > 0 THEN PromoteHeader(d) ELSE d

\* line 107: df_clean[cols_to_keep], columns in the order of the selection
RECURSIVE KeepColumns(_, _)
KeepColumns(d, keep) ==
    IF keep = <<>> THEN <<>>
    ELSE <<d[ColumnOf(d, keep[1])]>> \o KeepColumns(d, Tail(keep))

\* str(dtype), line 119
DtypeName(dtype) == IF dtype = "datetime64" THEN "datetime64[ns]" ELSE dtype

\* One execution of the script from line 78 on, for the widget values of
\* this run: the type summary shown (line 123) and the data handed to
\* st.download_button (lines 165-191), if any.
RunScript(file, k, hdr, keep, etype, infer_button, prepare_button) ==
    IF file = NoFile THEN [types |-> <<>>, download |-> NoDownload]
    ELSE
        LET selected == KeepColumns(BasicCleanup(file, k, hdr), keep)
            res == infer_and_cast(selected, DefaultDatetimeThreshold,
                                  DefaultNumericThreshold)
            df_clean == IF infer_button THEN res.df ELSE selected
            inferred_types ==
                IF infer_button THEN res.inferred
                ELSE [name \in ColumnNames(selected) |->
                         DtypeName(selected[ColumnOf(selected, name)].dtype)]
        IN  [types |-> inferred_types,
             download |-> IF prepare_button
                          THEN [format |-> etype, table |-> df_clean]
                          ELSE NoDownload]

\* all subsequences of a sequence of labels, in the order of the options
RECURSIVE SubSeqs(_)
SubSeqs(q) ==
    IF q = <<>> THEN {<<>>}
    ELSE LET rest == SubSeqs(Tail(q))
         IN  rest \cup {<<q[1]>> \o r : r \in rest}

\* ------------------------------------------------------------- the state
VARIABLES
    df,                   \* the table passed to infer_and_cast
    datetime_threshold,   \* its datetime_threshold argument
    numeric_threshold,    \* its numeric_threshold argument
    pc,                   \* "call", "returned", "reinferred"; "ui" in the script
    first,                \* what infer_and_cast(df) returned
    second,               \* what infer_and_cast(first.df) returned
    uploaded,             \* the file in st.file_uploader, read into a table
    top_rows,             \* "Remove top X rows"
    use_first_row,        \* "Use first row as column headers"
    cols_to_keep,         \* "Select columns to keep"
    export_type,          \* "Select export format"
    shown_types,          \* the summary the last run passed to st.json
    download,             \* what the last run passed to st.download_button
    infer_clicked         \* "Run type inference" was clicked for these settings

engine == <<df, datetime_threshold, numeric_threshold, pc, first, second>>
widgets == <<uploaded, top_rows, use_first_row, cols_to_keep, export_type>>
screen == <<shown_types, download, infer_clicked>>
vars == <<engine, widgets, screen>>

NoUi ==
    /\ uploaded = NoFile
    /\ top_rows = 0
    /\ use_first_row = FALSE
    /\ cols_to_keep = <<>>
    /\ export_type = "parquet"
    /\ shown_types = <<>>
    /\ download = NoDownload
    /\ infer_clicked = FALSE

\* a call of infer_and_cast with thresholds in (0, 1]
Init ==
    /\ df \in Tables
    /\ datetime_threshold \in DatetimeThresholds
    /\ numeric_threshold \in NumericThresholds
    /\ pc = "call"
    /\ first = NoResult
    /\ second = NoResult
    /\ NoUi

\* a call of infer_and_cast with any thresholds
InitAnyThreshold ==
    /\ df \in Tables
    /\ datetime_threshold \in AnyDatetimeThresholds
    /\ numeric_threshold \in AnyNumericThresholds
    /\ pc = "call"
    /\ first = NoResult
    /\ second = NoResult
    /\ NoUi

\* The caller runs infer_and_cast on the table.
Infer ==
    /\ pc = "call"
    /\ first' = infer_and_cast(df, datetime_threshold, numeric_threshold)
    /\ pc' = "returned"
    /\ UNCHANGED <<df, datetime_threshold, numeric_threshold, second>>
    /\ UNCHANGED <<widgets, screen>>

\* The caller runs infer_and_cast again, on the table it got back.
Reinfer ==
    /\ pc = "returned"
    /\ second' = infer_and_cast(first.df, datetime_threshold, numeric_threshold)
    /\ pc' = "reinferred"
    /\ UNCHANGED <<df, datetime_threshold, numeric_threshold, first>>
    /\ UNCHANGED <<widgets, screen>>

Next == Infer \/ Reinfer

Spec == Init /\ [][Next]_vars

SpecAnyThreshold == InitAnyThreshold /\ [][Next]_vars

\* ---------------------------------------------------- the script's runs
InitUI ==
    /\ df = <<>>
    /\ datetime_threshold = DefaultDatetimeThreshold
    /\ numeric_threshold = DefaultNumericThreshold
    /\ pc = "ui"
    /\ first = NoResult
    /\ second = NoResult
    /\ NoUi

\* The script runs from the top with the new widget values; a button reads
\* True only in the run its own click triggers.
Rerun(infer_button, prepare_button) ==
    LET run == RunScript(uploaded', top_rows', use_first_row', cols_to_keep',
                         export_type', infer_button, prepare_button)
    IN  /\ shown_types' = run.types
        /\ download' = run.download

Options(file, k, hdr) == Labels(BasicCleanup(file, k, hdr))

\* The multiselect keeps its selection while its options are the same and
\* falls back to its default, every column, when they change (line 104).
Reselect ==
    cols_to_keep' =
        IF uploaded # NoFile
           /\ Options(uploaded', top_rows', use_first_row')
                = Options(uploaded, top_rows, use_first_row)
        THEN cols_to_keep
        ELSE Options(uploaded', top_rows', use_first_row')

Upload(file) ==
    /\ uploaded # file
    /\ uploaded' = file
    /\ top_rows' = IF uploaded # NoFile /\ RowCount(uploaded) = RowCount(file)
                   THEN top_rows ELSE 0
    /\ UNCHANGED <<use_first_row, export_type>>
    /\ Reselect
    /\ infer_clicked' = FALSE
    /\ Rerun(FALSE, FALSE)
    /\ UNCHANGED engine

SetTopRows(k) ==
    /\ uploaded # NoFile
    /\ k # top_rows
    /\ top_rows' = k
    /\ UNCHANGED <<uploaded, use_first_row, export_type>>
    /\ Reselect
    /\ infer_clicked' = FALSE
    /\ Rerun(FALSE, FALSE)
    /\ UNCHANGED engine

ToggleFirstRow ==
    /\ uploaded # NoFile
    /\ use_first_row' = ~use_first_row
    /\ UNCHANGED <<uploaded, top_rows, export_type>>
    /\ Reselect
    /\ infer_clicked' = FALSE
    /\ Rerun(FALSE, FALSE)
    /\ UNCHANGED engine

SelectColumns(keep) ==
    /\ uploaded # NoFile
    /\ keep # cols_to_keep
    /\ cols_to_keep' = keep
    /\ UNCHANGED <<uploaded, top_rows, use_first_row, export_type>>
    /\ infer_clicked' = FALSE
    /\ Rerun(FALSE, FALSE)
    /\ UNCHANGED engine

SelectExportType(t) ==
    /\ uploaded # NoFile
    /\ t # export_type
    /\ export_type' = t
    /\ UNCHANGED <<uploaded, top_rows, use_first_row, cols_to_keep, infer_clicked>>
    /\ Rerun(FALSE, FALSE)
    /\ UNCHANGED engine

ClickInfer ==
    /\ uploaded # NoFile
    /\ UNCHANGED widgets
    /\ infer_clicked' = TRUE
    /\ Rerun(TRUE, FALSE)
    /\ UNCHANGED engine

ClickPrepare ==
    /\ uploaded # NoFile
    /\ UNCHANGED <<widgets, infer_clicked>>
    /\ Rerun(FALSE, TRUE)
    /\ UNCHANGED engine

\* Clicking the download button hands over the data and runs the script again.
ClickDownload ==
    /\ download # NoDownload
    /\ UNCHANGED <<widgets, infer_clicked>>
    /\ Rerun(FALSE, FALSE)
    /\ UNCHANGED engine

NextUI ==
    \/ \E file \in Files : Upload(file)
    \/ \E k \in 0..RowCount(uploaded) : SetTopRows(k)
    \/ ToggleFirstRow
    \/ \E keep \in SubSeqs(Options(uploaded, top_rows, use_first_row)) :
           SelectColumns(keep)
    \/ \E t \in ExportTypes : SelectExportType(t)
    \/ ClickInfer
    \/ ClickPrepare
    \/ ClickDownload

SpecUI == InitUI /\ [][NextUI]_vars

\* ------------------------------------------------------------ the claims
Returned == pc \in {"returned", "reinferred"}
Cols == 1..Len(df)
TagOf(i) == first.inferred[df[i].name]
NumericTags == {"integer", "float"}

\* the numerators of num_ok_ratio and dt_ok_ratio and their denominator n
NumOk(i) == Count(to_numeric(dropna(df[i])).cells)
DtOk(i) == Count(to_datetime(dropna(df[i])).cells)
NonMissing(i) == Cardinality({r \in 1..Len(df[i].cells) : df[i].cells[r].k # "na"})
DtClears(i) == DtOk(i) * datetime_threshold[2] >= datetime_threshold[1] * NonMissing(i)
NumClears(i) == NumOk(i) * numeric_threshold[2] >= numeric_threshold[1] * NonMissing(i)
NumEquals(i) == NumOk(i) * numeric_threshold[2] = numeric_threshold[1] * NonMissing(i)

IsIntegral(c) == c.s # "" \/ c.n % 10 = 0
ParsedAllIntegral(i) ==
    LET trial == to_numeric(dropna(df[i])).cells
    IN  \A r \in 1..Len(trial) : notna(trial[r]) => IsIntegral(trial[r])

\* C4: a numeric column is tagged integer iff every value that parsed in
\* the numeric trial is integral, float otherwise.
C4_IntegerIffIntegral ==
    Returned =>
        \A i \in Cols : TagOf(i) \in NumericTags =>
            ((TagOf(i) = "integer") <=> ParsedAllIntegral(i))

\* C5: a threshold outside (0, 1] is reported as a configuration error and
\* nothing is returned.
C5_ConfigError ==
    (Returned /\ ~(InRange(datetime_threshold) /\ InRange(numeric_threshold)))
        => /\ first.status = "config_error"
           /\ first.df = <<>>
           /\ DOMAIN first.inferred = {}

\* C6: the returned table has the input's column names in order and the
\* input's row count in every column, and the tags cover every column.
C6_ShapePreserved ==
    Returned =>
        /\ Len(first.df) = Len(df)
        /\ \A i \in Cols : /\ first.df[i].name = df[i].name
                           /\ Len(first.df[i].cells) = Len(df[i].cells)
        /\ DOMAIN first.inferred = {df[i].name : i \in Cols}

\* two columns with rows, one of them tagged empty
C6_Witness ==
    /\ Returned
    /\ Len(df) = 2
    /\ Len(df[1].cells) > 0
    /\ \E i \in Cols : TagOf(i) = "empty"
    /\ \E i \in Cols : TagOf(i) # "empty"

\* the text form of a cell
TextForm(c) ==
    CASE c.k = "str" -> c.s
      [] c.k = "na" -> c.s
      [] c.k = "int" /\ c.n = 10 -> "1"
      [] c.k = "float" /\ c.n = 25 -> "2.5"
      [] OTHER -> "?"

\* C7: in a column tagged string a missing cell stays missing, a non-missing
\* cell becomes missing only if its text is "nan" or "None", and every other
\* cell is its text form, trimmed.
C7_StringFallback ==
    Returned =>
        \A i \in Cols : TagOf(i) = "string" =>
            \A r \in 1..Len(df[i].cells) :
                LET in == df[i].cells[r]
                    out == first.df[i].cells[r]
                IN  /\ in.k = "na" => out.k = "na"
                    /\ (in.k # "na" /\ out.k = "na") => TextForm(in) \in {"nan", "None"}
                    /\ (in.k # "na" /\ TextForm(in) \notin {"nan", "None"})
                           => out = StrV(Strip(TextForm(in)))

\* the value a cell parses to under a tag, missing if it does not parse
ParsedUnder(tag, dtype, c) ==
    IF c.k = "na" THEN NaN
    ELSE IF tag = "datetime" THEN (IF c.k = "str" THEN DtParse(c.s) ELSE c)
    ELSE IF dtype = "object" THEN ObjToNum(c)
    ELSE c

KindsOf(tag) ==
    CASE tag = "datetime" -> {"ts"}
      [] tag = "integer" -> {"int"}
      [] tag = "float" -> {"float"}
      [] tag = "string" -> {"str"}
      [] OTHER -> {}

\* C8: every cell conforms to its column's tag; under datetime, integer and
\* float a cell is missing exactly when the input cell was missing or did
\* not parse, and a cell that parsed keeps its value.
C8_TagConformance ==
    Returned =>
        \A i \in Cols : TagOf(i) # "empty" =>
            \A r \in 1..Len(df[i].cells) :
                LET in == df[i].cells[r]
                    out == first.df[i].cells[r]
                    p == ParsedUnder(TagOf(i), df[i].dtype, in)
                IN  /\ out.k = "na" \/ out.k \in KindsOf(TagOf(i))
                    /\ TagOf(i) # "string" =>
                          /\ (out.k = "na") <=> (p.k = "na")
                          /\ p.k # "na" => out.n = p.n

\* C9: a column whose cells are all missing is tagged empty and returned
\* unchanged; a column with a non-missing cell is never tagged empty.
C9_EmptyColumn ==
    Returned =>
        \A i \in Cols :
            /\ NonMissing(i) = 0 => (TagOf(i) = "empty" /\ first.df[i] = df[i])
            /\ NonMissing(i) > 0 => TagOf(i) # "empty"

\* a column of missing cells only, with rows, under a threshold that every
\* ratio clears
C9_Witness ==
    /\ Returned
    /\ datetime_threshold[1] = 0
    /\ \E i \in Cols : /\ Len(df[i].cells) > 0
                       /\ NonMissing(i) = 0
                       /\ TagOf(i) = "empty"

\* cells agree when both are missing or they are the same value
SameCell(a, b) == (a.k = "na" /\ b.k = "na") \/ a = b

\* C2: inferring the returned table again returns the same tags and cells.
C2_Idempotent ==
    pc = "reinferred" =>
        /\ second.inferred = first.inferred
        /\ \A i \in 1..Len(first.df) :
              \A r \in 1..Len(first.df[i].cells) :
                  SameCell(second.df[i].cells[r], first.df[i].cells[r])

\* the table and the tags inference gives for the current settings
Expected ==
    infer_and_cast(
        KeepColumns(BasicCleanup(uploaded, top_rows, use_first_row), cols_to_keep),
        DefaultDatetimeThreshold, DefaultNumericThreshold)

\* C10: once "Run type inference" was clicked for the current settings, what
\* "Prepare download" serializes is the cast table and the summary shown is
\* the inferred tags.
C10_ExportInferred ==
    (infer_clicked /\ download # NoDownload) =>
        /\ download.table = Expected.df
        /\ shown_types = Expected.inferred

====
